---- MODULE Spec2Model ----
(***************************************************************************)
(* The MaidManager persona of safe_vault (src/personas/maid_manager.rs):   *)
(* per-client accounts, the put path with its optimistic debit, the        *)
(* request cache that correlates completions with the requests that        *)
(* caused them, refresh and churn.                                         *)
(*                                                                         *)
(* One MaidManager is modelled.  Every handler runs to completion (the     *)
(* vault is single threaded), so each handler is one action.  The calls a  *)
(* handler makes on the routing node are recorded in `sent`, its return    *)
(* value in `result` and its arguments in `call`, together with what the   *)
(* call found: the ids that were live in request_cache before a put, the   *)
(* account that a refresh replaced.  `status` remembers for every message  *)
(* id whether a request was ever registered under it and whether the       *)
(* latest registration has been resolved.  `group` is used by GroupSpec    *)
(* only: the accounts of every MaidManager of a close group and the        *)
(* refresh messages on their way between them.                             *)
(***************************************************************************)
EXTENDS Integers, Sequences, FiniteSets, TLC

DEFAULT_ACCOUNT_SIZE == 1073741824
DEFAULT_PAYMENT == 1048576

(***************************************************************************)
(* Bounds of the model.                                                    *)
(***************************************************************************)
\* number of handle_put calls in a behaviour
MaxPuts == 2
\* capacity of request_cache (1000 in the source, scaled)
CacheCapacity == 1
\* number of Account calls in a behaviour of AccountSpec
MaxAccountOps == 4
\* number of nodes in the close group of a client in GroupSpec
GroupSize == 2

VARIABLES accounts, request_cache, call, result, sent, puts, status, ledger,
          group

vars ==
    <<accounts, request_cache, call, result, sent, puts, status, ledger, group>>

(***************************************************************************)
(* Values                                                                  *)
(***************************************************************************)
\* XorName values: names of accounts, of authorities and of data
Names == {1, 2}
\* public signing keys of clients
ClientKeys == {11, 12}
\* name of the node a client is connected through
ProxyNames == {2}
MessageIds == {1, 2}

\* the name of a client is the hash of its public key
client_name(authority) == authority.key - 10

ClientAuthority(key, proxy) == [kind |-> "Client", key |-> key, name |-> proxy]
ClientManager(name) == [kind |-> "ClientManager", key |-> 0, name |-> name]
NaeManager(name) == [kind |-> "NaeManager", key |-> 0, name |-> name]

ImmutableData(name) == [kind |-> "Immutable", name |-> name, type_tag |-> -1]
StructuredData(name, tag) == [kind |-> "Structured", name |-> name, type_tag |-> tag]

\* the data that clients put: immutable data, structured data with type tag 0
\* (a request to create an account) and structured data with another tag
Datas == {ImmutableData(2), StructuredData(1, 0), StructuredData(2, 1)}

\* RequestMessage { src, dst, content: RequestContent::Put(data, message_id) }.
\* Nothing in the handlers compares the name in dst with the name of the
\* client: the requests are those a client sends to the ClientManager of its
\* own name, and those the second client sends to the ClientManager of the
\* name of the first.
Requests ==
    {r \in [src : {ClientAuthority(k, p) : k \in ClientKeys, p \in ProxyNames},
            dst : {ClientManager(n) : n \in Names},
            data : Datas,
            id : MessageIds] : r.dst.name <= client_name(r.src)}

ClientErrors == {"NoSuchAccount", "AccountExists", "NoSuchData", "LowBalance"}

\* serialisation of a ClientError: the index of the variant, as one byte
ErrorCode(error) ==
    CASE error = "NoSuchAccount" -> 0
      [] error = "AccountExists" -> 1
      [] error = "NoSuchData" -> 2
      [] error = "LowBalance" -> 3

serialise(error) == <<ErrorCode(error)>>

\* deserialise::<ClientError>: an Option, <<error>> or <<>> when the bytes
\* are not the encoding of a ClientError
deserialise(bytes) ==
    IF Len(bytes) = 1 /\ \E e \in ClientErrors : ErrorCode(e) = bytes[1]
    THEN <<CHOOSE e \in ClientErrors : ErrorCode(e) = bytes[1]>>
    ELSE <<>>

\* error payloads that arrive with a put failure from the data tier
Payloads == {serialise("NoSuchData"), <<9>>}

\* sha512 of the serialised request
message_hash(request) == [sha512 |-> request]

\* Result<(), InternalError> and Result<(), ClientError>
Ok == [tag |-> "Ok", err |-> "None", id |-> 0]
ErrClient(error) == [tag |-> "Client", err |-> error, id |-> 0]
ErrFailedToFindCachedRequest(id) ==
    [tag |-> "FailedToFindCachedRequest", err |-> "None", id |-> id]
ErrSerialisation == [tag |-> "Serialisation", err |-> "None", id |-> 0]

(***************************************************************************)
(* Account.  Every account of the network starts as Account::default() and *)
(* is changed by put_data and delete_data only, which keep the sum of the  *)
(* two fields: no field exceeds DEFAULT_ACCOUNT_SIZE and the u64           *)
(* arithmetic never wraps.                                                 *)
(***************************************************************************)
AccountDefault == [data_stored |-> 0, space_available |-> DEFAULT_ACCOUNT_SIZE]

put_data_off_by_one(account, size) ==
    IF size >= account.space_available
    THEN [account |-> account, result |-> ErrClient("LowBalance")]
    ELSE [account |-> [data_stored |-> account.data_stored + size,
                       space_available |-> account.space_available - size],
          result |-> Ok]

\* put_data returns the account it leaves behind and its Result
put_data(account, size) ==
    IF size > account.space_available
    THEN [account |-> account, result |-> ErrClient("LowBalance")]
    ELSE [account |-> [data_stored |-> account.data_stored + size,
                       space_available |-> account.space_available - size],
          result |-> Ok]

delete_data_no_credit(account, size) ==
    IF account.data_stored < size
    THEN [data_stored |-> 0,
          space_available |-> account.space_available + account.data_stored]
    ELSE [data_stored |-> account.data_stored - size,
          space_available |-> account.space_available]

\* credits size even when less than size is stored
delete_data_overcredits(account, size) ==
    IF account.data_stored < size
    THEN [data_stored |-> 0,
          space_available |-> account.space_available + size]
    ELSE [data_stored |-> account.data_stored - size,
          space_available |-> account.space_available + size]

delete_data(account, size) ==
    IF account.data_stored < size
    THEN [data_stored |-> 0,
          space_available |-> account.space_available + account.data_stored]
    ELSE [data_stored |-> account.data_stored - size,
          space_available |-> account.space_available + size]

(***************************************************************************)
(* request_cache: LruCache<MessageId, RequestMessage> with an expiry       *)
(* duration and a capacity.  It is the sequence of its entries, least      *)
(* recently inserted first; insert and remove are the only calls made on   *)
(* it, so this is also the order of the entries' timestamps and the        *)
(* entries whose time has run out are a prefix.                            *)
(***************************************************************************)
CacheEntry(id, request) == [id |-> id, request |-> request, expired |-> FALSE]

remove_expired(cache) == SelectSeq(cache, LAMBDA e : ~e.expired)

HasKey(cache, id) == \E i \in 1..Len(cache) : cache[i].id = id

ValueOf(cache, id) ==
    LET i == CHOOSE i \in 1..Len(cache) : cache[i].id = id IN cache[i].request

WithoutKey(cache, id) == SelectSeq(cache, LAMBDA e : e.id # id)

\* the entries a lookup can see
Live(cache) == {[id |-> e.id, request |-> e.request] : e \in
                    {cache[i] : i \in {j \in 1..Len(cache) : ~cache[j].expired}}}

LiveIds(cache) == {e.id : e \in Live(cache)}

\* never discards an entry to make room
cache_insert_unbounded(cache, id, request) ==
    IF HasKey(cache, id)
    THEN [cache |-> Append(WithoutKey(cache, id), CacheEntry(id, request)),
          prior |-> <<ValueOf(cache, id)>>]
    ELSE [cache |-> Append(remove_expired(cache), CacheEntry(id, request)),
          prior |-> <<>>]

\* keeps the entry the key already has next to the new one
cache_insert_duplicates(cache, id, request) ==
    LET live == remove_expired(cache)
        room == IF Len(live) >= CacheCapacity /\ ~HasKey(cache, id)
                THEN SubSeq(live, Len(live) - CacheCapacity + 2, Len(live))
                ELSE live
    IN [cache |-> Append(room, CacheEntry(id, request)),
        prior |-> IF HasKey(cache, id) THEN <<ValueOf(cache, id)>> ELSE <<>>]

\* LruCache::insert: the prior value of the key is returned as an Option
cache_insert(cache, id, request) ==
    IF HasKey(cache, id)
    THEN [cache |-> Append(WithoutKey(cache, id), CacheEntry(id, request)),
          prior |-> <<ValueOf(cache, id)>>]
    ELSE LET live == remove_expired(cache)
             room == IF Len(live) >= CacheCapacity
                     THEN SubSeq(live, Len(live) - CacheCapacity + 2, Len(live))
                     ELSE live
         IN [cache |-> Append(room, CacheEntry(id, request)), prior |-> <<>>]

\* finds an entry whose expiry duration has run out
cache_remove_ignores_expiry(cache, id) ==
    [cache |-> WithoutKey(cache, id),
     value |-> IF HasKey(cache, id) THEN <<ValueOf(cache, id)>> ELSE <<>>]

\* LruCache::remove: the value of the key is returned as an Option
cache_remove(cache, id) ==
    LET live == remove_expired(cache)
    IN [cache |-> WithoutKey(live, id),
        value |-> IF HasKey(live, id) THEN <<ValueOf(live, id)>> ELSE <<>>]

(***************************************************************************)
(* MaidManager.  A handler maps the state m = [accounts, request_cache] to *)
(* the state it leaves, the messages it hands to the routing node and its  *)
(* return value.  Serialising a ClientError or a RequestMessage does not   *)
(* fail, so the try! around it never returns; deserialising the payload of *)
(* a put failure does fail on bytes that encode no ClientError.            *)
(***************************************************************************)
Outcome(accts, cache, msgs, res) ==
    [accounts |-> accts, request_cache |-> cache, sent |-> msgs, result |-> res]

Insert(accts, name, account) ==
    [n \in DOMAIN accts \cup {name} |-> IF n = name THEN account ELSE accts[n]]

\* the call routing_node.send_put_failure makes
PutFailure(src, dst, request, external_error_indicator, message_id) ==
    [type |-> "put_failure", src |-> src, dst |-> dst, request |-> request,
     external_error_indicator |-> external_error_indicator, id |-> message_id]

PutRequest(src, dst, data, message_id) ==
    [type |-> "put_request", src |-> src, dst |-> dst, data |-> data,
     id |-> message_id]

PutSuccess(src, dst, hash, message_id) ==
    [type |-> "put_success", src |-> src, dst |-> dst, hash |-> hash,
     id |-> message_id]

RefreshRequest(src, content) ==
    [type |-> "refresh", src |-> src, content |-> content]

reply_with_put_failure_unswapped(request, message_id, error) ==
    PutFailure(request.src, request.dst, request, serialise(error), message_id)

\* the message reply_with_put_failure sends; it returns Ok
reply_with_put_failure(request, message_id, error) ==
    PutFailure(request.dst, request.src, request, serialise(error), message_id)

\* forwards without registering the request
forward_put_request_unregistered(m, name, data, message_id, request) ==
    LET debit ==
            IF name \in DOMAIN m.accounts
            THEN put_data(m.accounts[name], DEFAULT_PAYMENT)
            ELSE [account |-> AccountDefault, result |-> ErrClient("NoSuchAccount")]
    IN IF debit.result # Ok
       THEN Outcome(m.accounts, m.request_cache,
                    <<reply_with_put_failure(request, message_id, debit.result.err)>>,
                    ErrClient(debit.result.err))
       ELSE Outcome([m.accounts EXCEPT ![name] = debit.account],
                    m.request_cache,
                    <<PutRequest(request.dst, NaeManager(data.name), data, message_id)>>,
                    Ok)

\* forwards to the NaeManager of the client's name
forward_put_request_to_client(m, name, data, message_id, request) ==
    LET debit ==
            IF name \in DOMAIN m.accounts
            THEN put_data(m.accounts[name], DEFAULT_PAYMENT)
            ELSE [account |-> AccountDefault, result |-> ErrClient("NoSuchAccount")]
    IN IF debit.result # Ok
       THEN Outcome(m.accounts, m.request_cache,
                    <<reply_with_put_failure(request, message_id, debit.result.err)>>,
                    ErrClient(debit.result.err))
       ELSE Outcome([m.accounts EXCEPT ![name] = debit.account],
                    cache_insert(m.request_cache, message_id, request).cache,
                    <<PutRequest(request.dst, NaeManager(name), data, message_id)>>,
                    Ok)

\* registers the request before it debits the account
forward_put_request_registers_first(m, name, data, message_id, request) ==
    LET debit ==
            IF name \in DOMAIN m.accounts
            THEN put_data(m.accounts[name], DEFAULT_PAYMENT)
            ELSE [account |-> AccountDefault, result |-> ErrClient("NoSuchAccount")]
        registered == cache_insert(m.request_cache, message_id, request).cache
    IN IF debit.result # Ok
       THEN Outcome(m.accounts, registered,
                    <<reply_with_put_failure(request, message_id, debit.result.err)>>,
                    ErrClient(debit.result.err))
       ELSE Outcome([m.accounts EXCEPT ![name] = debit.account],
                    registered,
                    <<PutRequest(request.dst, NaeManager(data.name), data, message_id)>>,
                    Ok)

forward_put_request(m, name, data, message_id, request) ==
    LET debit ==
            IF name \in DOMAIN m.accounts
            THEN put_data(m.accounts[name], DEFAULT_PAYMENT)
            ELSE [account |-> AccountDefault, result |-> ErrClient("NoSuchAccount")]
    IN IF debit.result # Ok
       THEN Outcome(m.accounts, m.request_cache,
                    <<reply_with_put_failure(request, message_id, debit.result.err)>>,
                    ErrClient(debit.result.err))
       ELSE Outcome([m.accounts EXCEPT ![name] = debit.account],
                    cache_insert(m.request_cache, message_id, request).cache,
                    <<PutRequest(request.dst, NaeManager(data.name), data, message_id)>>,
                    Ok)

handle_put_immutable_data(m, request) ==
    forward_put_request(m, client_name(request.src), request.data, request.id, request)

\* creates the account without looking for an existing one
handle_put_structured_data_recreates(m, request) ==
    LET name == client_name(request.src)
    IN IF request.data.type_tag = 0
       THEN forward_put_request(
                [m EXCEPT !.accounts = Insert(m.accounts, name, AccountDefault)],
                name, request.data, request.id, request)
       ELSE forward_put_request(m, name, request.data, request.id, request)

handle_put_structured_data(m, request) ==
    LET name == client_name(request.src)
    IN IF request.data.type_tag = 0
       THEN IF name \in DOMAIN m.accounts
            THEN Outcome(m.accounts, m.request_cache,
                         <<reply_with_put_failure(request, request.id, "AccountExists")>>,
                         ErrClient("AccountExists"))
            ELSE forward_put_request(
                     [m EXCEPT !.accounts = Insert(m.accounts, name, AccountDefault)],
                     name, request.data, request.id, request)
       ELSE forward_put_request(m, name, request.data, request.id, request)

handle_put(m, request) ==
    IF request.data.kind = "Immutable"
    THEN handle_put_immutable_data(m, request)
    ELSE handle_put_structured_data(m, request)

\* looks the request up and leaves it in the cache
handle_put_success_peek(m, message_id) ==
    LET removed == cache_remove(m.request_cache, message_id)
    IN IF removed.value = <<>>
       THEN Outcome(m.accounts, removed.cache, <<>>,
                    ErrFailedToFindCachedRequest(message_id))
       ELSE LET client_request == removed.value[1]
            IN Outcome(m.accounts, remove_expired(m.request_cache),
                       <<PutSuccess(client_request.dst, client_request.src,
                                    message_hash(client_request), message_id)>>,
                       Ok)

\* gives the payment back when the put succeeded
handle_put_success_refunds(m, message_id) ==
    LET removed == cache_remove(m.request_cache, message_id)
    IN IF removed.value = <<>>
       THEN Outcome(m.accounts, removed.cache, <<>>,
                    ErrFailedToFindCachedRequest(message_id))
       ELSE LET client_request == removed.value[1]
                name == client_request.dst.name
            IN Outcome(IF name \in DOMAIN m.accounts
                       THEN [m.accounts EXCEPT
                                ![name] = delete_data(@, DEFAULT_PAYMENT)]
                       ELSE m.accounts,
                       removed.cache,
                       <<PutSuccess(client_request.dst, client_request.src,
                                    message_hash(client_request), message_id)>>,
                       Ok)

handle_put_success(m, message_id) ==
    LET removed == cache_remove(m.request_cache, message_id)
    IN IF removed.value = <<>>
       THEN Outcome(m.accounts, removed.cache, <<>>,
                    ErrFailedToFindCachedRequest(message_id))
       ELSE LET client_request == removed.value[1]
            IN Outcome(m.accounts, removed.cache,
                       <<PutSuccess(client_request.dst, client_request.src,
                                    message_hash(client_request), message_id)>>,
                       Ok)

\* sends the failure on without refunding the account
handle_put_failure_no_refund(m, message_id, external_error_indicator) ==
    LET removed == cache_remove(m.request_cache, message_id)
    IN IF removed.value = <<>>
       THEN Outcome(m.accounts, removed.cache, <<>>,
                    ErrFailedToFindCachedRequest(message_id))
       ELSE LET client_request == removed.value[1]
                name == client_request.dst.name
            IN IF name \notin DOMAIN m.accounts
               THEN Outcome(m.accounts, removed.cache, <<>>, Ok)
               ELSE LET error == deserialise(external_error_indicator)
                    IN IF error = <<>>
                       THEN Outcome(m.accounts, removed.cache, <<>>, ErrSerialisation)
                       ELSE Outcome(m.accounts, removed.cache,
                                    <<reply_with_put_failure(client_request,
                                                             message_id, error[1])>>,
                                    Ok)

\* takes a failure for an id it does not know for done
handle_put_failure_ignores_miss(m, message_id, external_error_indicator) ==
    LET removed == cache_remove(m.request_cache, message_id)
    IN IF removed.value = <<>>
       THEN Outcome(m.accounts, removed.cache, <<>>, Ok)
       ELSE LET client_request == removed.value[1]
                name == client_request.dst.name
            IN IF name \notin DOMAIN m.accounts
               THEN Outcome(m.accounts, removed.cache, <<>>, Ok)
               ELSE LET refunded ==
                            [m.accounts EXCEPT
                                ![name] = delete_data(m.accounts[name], DEFAULT_PAYMENT)]
                        error == deserialise(external_error_indicator)
                    IN IF error = <<>>
                       THEN Outcome(refunded, removed.cache, <<>>, ErrSerialisation)
                       ELSE Outcome(refunded, removed.cache,
                                    <<reply_with_put_failure(client_request,
                                                             message_id, error[1])>>,
                                    Ok)

handle_put_failure(m, message_id, external_error_indicator) ==
    LET removed == cache_remove(m.request_cache, message_id)
    IN IF removed.value = <<>>
       THEN Outcome(m.accounts, removed.cache, <<>>,
                    ErrFailedToFindCachedRequest(message_id))
       ELSE LET client_request == removed.value[1]
                name == client_request.dst.name
            IN IF name \notin DOMAIN m.accounts
               THEN Outcome(m.accounts, removed.cache, <<>>, Ok)
               ELSE LET refunded ==
                            [m.accounts EXCEPT
                                ![name] = delete_data(m.accounts[name], DEFAULT_PAYMENT)]
                        error == deserialise(external_error_indicator)
                    IN IF error = <<>>
                       THEN Outcome(refunded, removed.cache, <<>>, ErrSerialisation)
                       ELSE Outcome(refunded, removed.cache,
                                    <<reply_with_put_failure(client_request,
                                                             message_id, error[1])>>,
                                    Ok)

\* keeps the account it already holds
handle_refresh_keeps_existing(m, name, account) ==
    Outcome(IF name \in DOMAIN m.accounts THEN m.accounts
            ELSE Insert(m.accounts, name, account),
            m.request_cache, <<>>, Ok)

handle_refresh(m, name, account) ==
    Outcome(Insert(m.accounts, name, account), m.request_cache, <<>>, Ok)

\* the message send_refresh sends
send_refresh(maid_name, account) ==
    RefreshRequest(ClientManager(maid_name),
                   [name |-> maid_name, value |-> account])

\* keeps the accounts without sending them to the group
handle_churn_without_refresh(m, close_group, order) ==
    LET kept == {n \in DOMAIN m.accounts : close_group[n] = "Some"}
    IN Outcome([n \in kept |-> m.accounts[n]], m.request_cache, <<>>, Ok)

\* keeps the accounts for which close_group fails
handle_churn_keeps_on_error(m, close_group, order) ==
    LET kept == {n \in DOMAIN m.accounts : close_group[n] # "None"}
        visited == SelectSeq(order, LAMBDA n : close_group[n] = "Some")
    IN Outcome([n \in kept |-> m.accounts[n]], m.request_cache,
               [i \in 1..Len(visited) |-> send_refresh(visited[i], m.accounts[visited[i]])],
               Ok)

\* close_group gives "Some", "None" or "Err" for each name; order is the order
\* in which the HashMap hands out its entries
handle_churn(m, close_group, order) ==
    LET kept == {n \in DOMAIN m.accounts : close_group[n] = "Some"}
        visited == SelectSeq(order, LAMBDA n : n \in kept)
    IN Outcome([n \in kept |-> m.accounts[n]], m.request_cache,
               [i \in 1..Len(visited) |-> send_refresh(visited[i], m.accounts[visited[i]])],
               Ok)

(***************************************************************************)
(* Spec: the events the vault hands to the MaidManager                     *)
(***************************************************************************)
\* accounts of a client as other members of its close group can hold them:
\* the default account after some number of debits
Full == DEFAULT_ACCOUNT_SIZE \div DEFAULT_PAYMENT

PeerAccounts ==
    {[data_stored |-> k * DEFAULT_PAYMENT,
      space_available |-> DEFAULT_ACCOUNT_SIZE - k * DEFAULT_PAYMENT] :
        k \in {0, Full - 1}}

Orders(S) == {o \in [1..Cardinality(S) -> S] : \A n \in S : \E i \in DOMAIN o : o[i] = n}

\* the value of group where a single MaidManager is modelled
NoGroup == [stores |-> <<>>, network |-> {}, churned |-> {}, initial |-> <<>>]

Manager == [accounts |-> accounts, request_cache |-> request_cache]

Apply(outcome) ==
    /\ accounts' = outcome.accounts
    /\ request_cache' = outcome.request_cache
    /\ sent' = outcome.sent
    /\ result' = outcome.result
    /\ UNCHANGED group

Init ==
    /\ accounts = <<>>
    /\ request_cache = <<>>
    /\ call = [op |-> "new"]
    /\ result = Ok
    /\ sent = <<>>
    /\ puts = 0
    /\ status = [id \in MessageIds |-> "never"]
    /\ ledger = <<>>
    /\ group = NoGroup

HandlePut(request) ==
    /\ puts < MaxPuts
    /\ Apply(handle_put(Manager, request))
    /\ call' = [op |-> "handle_put", request |-> request,
                live_before |-> LiveIds(request_cache)]
    /\ puts' = puts + 1
    /\ status' = IF result' = Ok
                 THEN [status EXCEPT ![request.id] = "registered"]
                 ELSE status
    /\ UNCHANGED ledger

HandlePutSuccess(message_id) ==
    /\ Apply(handle_put_success(Manager, message_id))
    /\ call' = [op |-> "handle_put_success", id |-> message_id]
    /\ status' = IF result' = ErrFailedToFindCachedRequest(message_id)
                 THEN status
                 ELSE [status EXCEPT ![message_id] = "resolved"]
    /\ UNCHANGED <<puts, ledger>>

HandlePutFailure(message_id, external_error_indicator) ==
    /\ Apply(handle_put_failure(Manager, message_id, external_error_indicator))
    /\ call' = [op |-> "handle_put_failure", id |-> message_id,
                payload |-> external_error_indicator]
    /\ status' = IF result' = ErrFailedToFindCachedRequest(message_id)
                 THEN status
                 ELSE [status EXCEPT ![message_id] = "resolved"]
    /\ UNCHANGED <<puts, ledger>>

HandleRefresh(name, account) ==
    /\ Apply(handle_refresh(Manager, name, account))
    /\ call' = [op |-> "handle_refresh", name |-> name, account |-> account,
                prior |-> IF name \in DOMAIN accounts THEN <<accounts[name]>>
                          ELSE <<>>]
    /\ UNCHANGED <<puts, status, ledger>>

HandleChurn(close_group, order) ==
    /\ Apply(handle_churn(Manager, close_group, order))
    /\ call' = [op |-> "handle_churn", close_group |-> close_group]
    /\ UNCHANGED <<puts, status, ledger>>

\* the expiry duration of the oldest entry that is still live runs out
TimePasses ==
    /\ \E i \in 1..Len(request_cache) : ~request_cache[i].expired
    /\ LET i == CHOOSE i \in 1..Len(request_cache) :
                    /\ ~request_cache[i].expired
                    /\ \A j \in 1..(i - 1) : request_cache[j].expired
       IN request_cache' = [request_cache EXCEPT ![i].expired = TRUE]
    /\ call' = [op |-> "time_passes"]
    /\ result' = Ok
    /\ sent' = <<>>
    /\ UNCHANGED <<accounts, puts, status, ledger, group>>

Next ==
    \/ \E request \in Requests : HandlePut(request)
    \/ \E message_id \in MessageIds : HandlePutSuccess(message_id)
    \/ \E message_id \in MessageIds, payload \in Payloads :
            HandlePutFailure(message_id, payload)
    \/ \E name \in Names, account \in PeerAccounts : HandleRefresh(name, account)
    \/ \E close_group \in [DOMAIN accounts -> {"Some", "None", "Err"}],
          order \in Orders(DOMAIN accounts) : HandleChurn(close_group, order)
    \/ TimePasses

Spec == Init /\ [][Next]_vars

(***************************************************************************)
(* Claims about the put path (checked under Spec).  A step of Spec is one  *)
(* call of a handler: the primed variables are the state the call leaves,  *)
(* call' its arguments, sent' the messages it sent and result' its return  *)
(* value.                                                                  *)
(***************************************************************************)
Registered(cache, request) == [id |-> request.id, request |-> request] \in Live(cache)

IsAccountCreation(request) ==
    request.data.kind = "Structured" /\ request.data.type_tag = 0

Debited(account) ==
    [data_stored |-> account.data_stored + DEFAULT_PAYMENT,
     space_available |-> account.space_available - DEFAULT_PAYMENT]

OfType(msgs, type) == {i \in 1..Len(msgs) : msgs[i].type = type}

\* C3: every handle_put call sends either one put failure to the client,
\* forwarding nothing and leaving request_cache alone, or one put request to
\* the data tier, registering the request under its message id and sending
\* no put failure; never both and never neither.  When it forwards, the
\* account of the client has been debited DEFAULT_PAYMENT.
C3_PutOutcome ==
    [][call'.op = "handle_put" =>
        LET request == call'.request
            name == client_name(request.src)
            failures == OfType(sent', "put_failure")
            forwards == OfType(sent', "put_request")
            before == IF name \in DOMAIN accounts THEN accounts[name]
                      ELSE AccountDefault
            refused ==
                /\ Cardinality(failures) = 1
                /\ forwards = {}
                /\ sent'[1].dst = request.src
                /\ request_cache' = request_cache
            forwarded ==
                /\ Cardinality(forwards) = 1
                /\ failures = {}
                /\ sent'[1].dst.kind = "NaeManager"
                /\ Registered(request_cache', request)
                /\ name \in DOMAIN accounts'
                /\ accounts'[name] = Debited(before)
        IN /\ Len(sent') = 1
           /\ refused \/ forwarded
           /\ ~(refused /\ forwarded)
           /\ forwarded <=> (result' = Ok)]_vars

\* a put is refused while the request of an earlier put is registered
C3_Witness ==
    /\ call.op = "handle_put"
    /\ result.tag = "Client"
    /\ Live(request_cache) # {}
    /\ OfType(sent, "put_failure") = {1}

\* C4: a put that is not an account creation, from a client without an
\* account, returns Err(Client(NoSuchAccount)) and sends exactly one put
\* failure, from the authority the request was sent to, to the client, with
\* the request, its message id and the serialised NoSuchAccount; nothing is
\* forwarded, request_cache and the accounts are as before.
C4_NoSuchAccount ==
    [][(/\ call'.op = "handle_put"
        /\ client_name(call'.request.src) \notin DOMAIN accounts
        /\ ~IsAccountCreation(call'.request)) =>
        LET request == call'.request
        IN /\ result' = ErrClient("NoSuchAccount")
           /\ sent' = <<PutFailure(request.dst, request.src, request,
                                   sent'[1].external_error_indicator, request.id)>>
           /\ deserialise(sent'[1].external_error_indicator) = <<"NoSuchAccount">>
           /\ request_cache' = request_cache
           /\ accounts' = accounts]_vars

\* a client without an account puts structured data whose tag is not 0,
\* while another client has an account
C4_Witness ==
    /\ call.op = "handle_put"
    /\ result = ErrClient("NoSuchAccount")
    /\ call.request.data.kind = "Structured"
    /\ client_name(call.request.src) \notin DOMAIN accounts
    /\ DOMAIN accounts # {}

\* C5: a structured-data put with type tag 0 from a client without an account
\* returns Ok, leaves the client with a default account debited
\* DEFAULT_PAYMENT, sends exactly the put request to the NaeManager of the
\* name of the data, registers the request and sends no put failure.
C5_AccountCreation ==
    [][(/\ call'.op = "handle_put"
        /\ client_name(call'.request.src) \notin DOMAIN accounts
        /\ IsAccountCreation(call'.request)) =>
        LET request == call'.request
            name == client_name(request.src)
        IN /\ result' = Ok
           /\ DOMAIN accounts' = DOMAIN accounts \cup {name}
           /\ accounts'[name] =
                  [data_stored |-> DEFAULT_PAYMENT,
                   space_available |-> DEFAULT_ACCOUNT_SIZE - DEFAULT_PAYMENT]
           /\ \A n \in DOMAIN accounts : accounts'[n] = accounts[n]
           /\ sent' = <<PutRequest(request.dst, NaeManager(request.data.name),
                                   request.data, request.id)>>
           /\ Registered(request_cache', request)]_vars

\* the account of a client is created by a put of data whose name is not the
\* name of the client
C5_Witness ==
    /\ call.op = "handle_put"
    /\ IsAccountCreation(call.request)
    /\ result = Ok
    /\ call.request.data.name # client_name(call.request.src)
    /\ sent[1].dst = NaeManager(call.request.data.name)
    /\ accounts[client_name(call.request.src)].data_stored = DEFAULT_PAYMENT

\* C6: a structured-data put with type tag 0 from a client that has an
\* account sends the client an AccountExists put failure, returns
\* Err(Client(AccountExists)), forwards nothing and leaves request_cache and
\* every account as it was.
C6_AccountExists ==
    [][(/\ call'.op = "handle_put"
        /\ client_name(call'.request.src) \in DOMAIN accounts
        /\ IsAccountCreation(call'.request)) =>
        LET request == call'.request
        IN /\ result' = ErrClient("AccountExists")
           /\ sent' = <<PutFailure(request.dst, request.src, request,
                                   serialise("AccountExists"), request.id)>>
           /\ request_cache' = request_cache
           /\ accounts' = accounts]_vars

\* an account that is not the default account is asked to be created again
C6_Witness ==
    /\ call.op = "handle_put"
    /\ result = ErrClient("AccountExists")
    /\ accounts[client_name(call.request.src)] # AccountDefault
    /\ accounts[client_name(call.request.src)].space_available >= DEFAULT_PAYMENT

LowBalanceRefused(request) ==
    /\ result' = ErrClient("LowBalance")
    /\ sent' = <<PutFailure(request.dst, request.src, request,
                            serialise("LowBalance"), request.id)>>
    /\ request_cache' = request_cache
    /\ accounts' = accounts

\* of two successive puts of a client whose account has exactly
\* DEFAULT_PAYMENT available the first is debited and forwarded and the
\* second fails with LowBalance
TwoSuccessivePuts(request) ==
    LET name == client_name(request.src)
    IN /\ accounts[name].space_available = DEFAULT_PAYMENT =>
              /\ result' = Ok
              /\ accounts'[name] = Debited(accounts[name])
              /\ OfType(sent', "put_request") = {1}
       /\ (/\ call.op = "handle_put"
           /\ result = Ok
           /\ client_name(call.request.src) = name
           /\ accounts[name].space_available = 0) =>
              result' = ErrClient("LowBalance")

\* C7 as stated: every put of a client whose account has less than
\* DEFAULT_PAYMENT available is rejected with LowBalance.
C7_Original ==
    [][(/\ call'.op = "handle_put"
        /\ client_name(call'.request.src) \in DOMAIN accounts
        /\ accounts[client_name(call'.request.src)].space_available
               < DEFAULT_PAYMENT) =>
        LowBalanceRefused(call'.request)]_vars

\* C7 (amended): a put that is not an account creation, of a client whose
\* account has less than DEFAULT_PAYMENT available, is rejected with
\* LowBalance: one put failure is sent, nothing is forwarded, request_cache
\* and the accounts are unchanged; and of two such successive puts on an
\* account with exactly DEFAULT_PAYMENT available the first is debited and
\* forwarded and the second fails with LowBalance.
C7_LowBalance ==
    [][(/\ call'.op = "handle_put"
        /\ client_name(call'.request.src) \in DOMAIN accounts
        /\ ~IsAccountCreation(call'.request)) =>
        /\ accounts[client_name(call'.request.src)].space_available
               < DEFAULT_PAYMENT => LowBalanceRefused(call'.request)
        /\ TwoSuccessivePuts(call'.request)]_vars

\* the second of two puts of a client: the first is still registered and has
\* used up the account
C7_Witness ==
    /\ call.op = "handle_put"
    /\ result = ErrClient("LowBalance")
    /\ puts = 2
    /\ accounts[client_name(call.request.src)].space_available = 0
    /\ \E e \in Live(request_cache) : e.request.src = call.request.src

(***************************************************************************)
(* Claims about completions (checked under Spec)                           *)
(***************************************************************************)
IsCompletion(op) == op \in {"handle_put_success", "handle_put_failure"}

\* the request a lookup of the id finds in request_cache
CachedRequest(id) == ValueOf(remove_expired(request_cache), id)

\* an account after a refund of DEFAULT_PAYMENT, or of all that is stored
\* when that is less
Refunded(account) ==
    LET amount == IF account.data_stored < DEFAULT_PAYMENT
                  THEN account.data_stored ELSE DEFAULT_PAYMENT
    IN [data_stored |-> account.data_stored - amount,
        space_available |-> account.space_available + amount]

\* C8 as stated: whenever handle_put_failure is called with an id that has a
\* live entry in request_cache, the account of the client is refunded
\* DEFAULT_PAYMENT and a put failure with the deserialised error is sent to
\* the client, source and destination of the cached request reversed.
C8_Original ==
    [][(/\ call'.op = "handle_put_failure"
        /\ call'.id \in LiveIds(request_cache)) =>
        LET client_request == CachedRequest(call'.id)
            name == client_name(client_request.src)
            error == deserialise(call'.payload)
        IN /\ name \in DOMAIN accounts
           /\ name \in DOMAIN accounts'
           /\ accounts'[name] =
                  [data_stored |-> accounts[name].data_stored - DEFAULT_PAYMENT,
                   space_available |->
                       accounts[name].space_available + DEFAULT_PAYMENT]
           /\ error # <<>>
           /\ sent' = <<PutFailure(client_request.dst, client_request.src,
                                   client_request, serialise(error[1]),
                                   call'.id)>>]_vars

\* C8 (amended): whenever handle_put_failure is called with an id that has a
\* live entry in request_cache, the entry is consumed.  If an account is
\* stored under the name of the cached request's destination, it is refunded
\* DEFAULT_PAYMENT (all of data_stored when that is less) and, when the
\* payload deserialises to a ClientError, exactly one put failure with that
\* error is sent to the original client, source and destination of the
\* cached request reversed, and Ok is returned; when the payload does not
\* deserialise the error is returned and nothing is sent.  If no account is
\* stored under that name, Ok is returned, nothing is refunded and nothing
\* is sent.
C8_FailureResolved ==
    [][(/\ call'.op = "handle_put_failure"
        /\ call'.id \in LiveIds(request_cache)) =>
        LET client_request == CachedRequest(call'.id)
            name == client_request.dst.name
            error == deserialise(call'.payload)
        IN /\ call'.id \notin LiveIds(request_cache')
           /\ IF name \notin DOMAIN accounts
              THEN /\ accounts' = accounts
                   /\ sent' = <<>>
                   /\ result' = Ok
              ELSE /\ accounts' =
                          [accounts EXCEPT ![name] = Refunded(accounts[name])]
                   /\ IF error = <<>>
                      THEN sent' = <<>> /\ result' = ErrSerialisation
                      ELSE /\ sent' = <<PutFailure(client_request.dst,
                                                   client_request.src,
                                                   client_request,
                                                   serialise(error[1]),
                                                   call'.id)>>
                           /\ result' = Ok]_vars

\* a failure of the data tier has been passed on to the client and its
\* payment refunded
C8_Witness ==
    /\ call.op = "handle_put_failure"
    /\ result = Ok
    /\ status[call.id] = "resolved"
    /\ OfType(sent, "put_failure") = {1}
    /\ sent[1].external_error_indicator = serialise("NoSuchData")
    /\ sent[1].dst.kind = "Client"
    /\ accounts[sent[1].src.name] = AccountDefault

\* C9: an id is resolved at most once per registration.  A success or
\* failure for an id whose latest registration has been resolved returns
\* FailedToFindCachedRequest, sends nothing and refunds nothing; a completion
\* resolves only an id that is registered and unresolved, and it sends at
\* most one response.
C9_ResolvedAtMostOnce ==
    [][IsCompletion(call'.op) =>
        LET id == call'.id
            resolves == result' # ErrFailedToFindCachedRequest(id)
        IN /\ status[id] = "resolved" => ~resolves
           /\ resolves => status[id] = "registered" /\ status'[id] = "resolved"
           /\ ~resolves => sent' = <<>> /\ accounts' = accounts
           /\ Len(sent') <= 1]_vars

\* a completion arrives for an id that has already been resolved
C9_Witness ==
    /\ IsCompletion(call.op)
    /\ status[call.id] = "resolved"
    /\ result = ErrFailedToFindCachedRequest(call.id)
    /\ DOMAIN accounts # {}

\* C10: a success or failure for an id under which no request was ever
\* registered returns FailedToFindCachedRequest, sends nothing and leaves the
\* accounts and the entries of request_cache as they were.
C10_NeverRegistered ==
    [][(/\ IsCompletion(call'.op)
        /\ status[call'.id] = "never") =>
        /\ result' = ErrFailedToFindCachedRequest(call'.id)
        /\ sent' = <<>>
        /\ accounts' = accounts
        /\ Live(request_cache') = Live(request_cache)]_vars

\* a failure arrives for an id never registered while a request is
\* registered under another id
C10_Witness ==
    /\ call.op = "handle_put_failure"
    /\ status[call.id] = "never"
    /\ result = ErrFailedToFindCachedRequest(call.id)
    /\ Live(request_cache) # {}
    /\ \E n \in DOMAIN accounts : accounts[n].data_stored > 0

(***************************************************************************)
(* Claims about churn and refresh (checked under Spec)                     *)
(***************************************************************************)
\* C11: after handle_churn the accounts are exactly the accounts held before
\* for which close_group returned Ok(Some(_)), each with the value it had;
\* for each of them exactly one refresh is sent, from the ClientManager of
\* its name, with the name and the account; nothing else is sent.
C11_ChurnRetains ==
    [][call'.op = "handle_churn" =>
        LET close_group == call'.close_group
            kept == {n \in DOMAIN accounts : close_group[n] = "Some"}
        IN /\ DOMAIN accounts' = kept
           /\ \A n \in kept : accounts'[n] = accounts[n]
           /\ \A n \in kept :
                  Cardinality({i \in 1..Len(sent') :
                      sent'[i] = RefreshRequest(ClientManager(n),
                                     [name |-> n, value |-> accounts[n]])}) = 1
           /\ Len(sent') = Cardinality(kept)]_vars

\* a churn that keeps one account, drops one the node is no longer close to
\* and drops one for which the close group could not be found
C11_Witness ==
    /\ call.op = "handle_churn"
    /\ \E n \in DOMAIN call.close_group : call.close_group[n] = "Some"
    /\ \E n \in DOMAIN call.close_group : call.close_group[n] = "Err"
    /\ Len(sent) = 1
    /\ sent[1].content.value.data_stored > 0
    /\ Cardinality(DOMAIN accounts) = 1

\* C12: handle_refresh(name, account) leaves name with the given account,
\* whether or not it had one and whatever it was, and every other account as
\* it was; a second handle_refresh with the same arguments changes nothing.
C12_RefreshOverwrites ==
    [][call'.op = "handle_refresh" =>
        LET name == call'.name
            again == handle_refresh([accounts |-> accounts',
                                     request_cache |-> request_cache'],
                                    name, call'.account)
        IN /\ DOMAIN accounts' = DOMAIN accounts \cup {name}
           /\ accounts'[name] = call'.account
           /\ \A n \in DOMAIN accounts \ {name} : accounts'[n] = accounts[n]
           /\ again.accounts = accounts'
           /\ again.request_cache = request_cache']_vars

\* a refresh replaces an account of another value while another client has
\* an account
C12_Witness ==
    /\ call.op = "handle_refresh"
    /\ call.prior # <<>>
    /\ call.prior[1] # call.account
    /\ accounts[call.name] = call.account
    /\ DOMAIN accounts # {call.name}

C15_SuccessResolved ==
    [][(/\ call'.op = "handle_put_success"
        /\ call'.id \in LiveIds(request_cache)) =>
        LET client_request == CachedRequest(call'.id)
        IN /\ ~HasKey(request_cache', call'.id)
           /\ Live(request_cache') =
                  Live(request_cache) \ {[id |-> call'.id,
                                          request |-> client_request]}
           /\ sent' = <<PutSuccess(client_request.dst, client_request.src,
                                   message_hash(client_request), call'.id)>>
           /\ accounts' = accounts
           /\ result' = Ok]_vars

\* a put has succeeded and the account that paid for it is still debited
C15_Witness ==
    /\ call.op = "handle_put_success"
    /\ result = Ok
    /\ status[call.id] = "resolved"
    /\ Len(sent) = 1
    /\ sent[1].type = "put_success"
    /\ sent[1].dst.kind = "Client"
    /\ client_name(sent[1].dst) \in DOMAIN accounts
    /\ accounts[client_name(sent[1].dst)] = Debited(AccountDefault)

C18_ExpiredIsMiss ==
    [][(/\ IsCompletion(call'.op)
        /\ HasKey(request_cache, call'.id)
        /\ call'.id \notin LiveIds(request_cache)) =>
        /\ result' = ErrFailedToFindCachedRequest(call'.id)
        /\ sent' = <<>>
        /\ accounts' = accounts
        /\ ~HasKey(request_cache', call'.id)]_vars

\* a failure arrived for a request that was registered, never completed and
\* never discarded for room, and the account is still debited
C18_Witness ==
    /\ call.op = "handle_put_failure"
    /\ call.payload = serialise("NoSuchData")
    /\ result = ErrFailedToFindCachedRequest(call.id)
    /\ status[call.id] = "registered"
    /\ \A id \in MessageIds \ {call.id} : status[id] = "never"
    /\ puts = 1
    /\ \E n \in DOMAIN accounts : accounts[n] = Debited(AccountDefault)

(***************************************************************************)
(* Claims about the account a failure refunds (checked under Spec)         *)
(***************************************************************************)
\* C16: when handle_put_failure is called with an id that has a live entry
\* and the account of the client that made the cached request is no longer
\* stored, it returns Ok, refunds nothing and leaves the accounts as they
\* were, without an account for the client; the entry is consumed.
C16_RemovedAccountNoRefund ==
    [][(/\ call'.op = "handle_put_failure"
        /\ call'.id \in LiveIds(request_cache)
        /\ client_name(CachedRequest(call'.id).src) \notin DOMAIN accounts) =>
        /\ result' = Ok
        /\ accounts' = accounts
        /\ ~HasKey(request_cache', call'.id)]_vars

\* C20: the account handle_put_failure refunds is the account handle_put
\* debited for the request.  A failure for an id with a live entry refunds
\* the account stored under the name of the client that made the cached
\* request, if there is one, and changes no other account.
C20_RefundsDebitedAccount ==
    [][(/\ call'.op = "handle_put_failure"
        /\ call'.id \in LiveIds(request_cache)) =>
        LET debited == client_name(CachedRequest(call'.id).src)
        IN /\ DOMAIN accounts' = DOMAIN accounts
           /\ \A n \in DOMAIN accounts \ {debited} :
                  accounts'[n] = accounts[n]
           /\ debited \in DOMAIN accounts =>
                  accounts'[debited] = Refunded(accounts[debited])]_vars

(***************************************************************************)
(* GroupSpec: the MaidManagers of the nodes 1..GroupSize, all of them in   *)
(* the close group of one client.  Every node holds an account for the     *)
(* client or none (a node that has just joined the group).  Each node runs *)
(* handle_churn once; the refresh it sends goes to every other node and    *)
(* is delivered there, in any order, to handle_refresh.  No other handler  *)
(* runs.  group.stores[n] is the accounts of node n, group.network the     *)
(* refreshes sent and not yet delivered, group.churned the nodes that have *)
(* run their churn pass and group.initial the accounts at the start.       *)
(***************************************************************************)
Nodes == 1..GroupSize

GroupClient == 1

GroupAccounts == PeerAccounts \cup {Debited(AccountDefault)}

GroupStores ==
    {<<>>} \cup {[n \in {GroupClient} |-> account] : account \in GroupAccounts}

NodeManager(node) == [accounts |-> group.stores[node], request_cache |-> <<>>]

GroupInit ==
    /\ \E stores \in [Nodes -> GroupStores] :
           /\ \E node \in Nodes : stores[node] # <<>>
           /\ group = [stores |-> stores, network |-> {}, churned |-> {},
                       initial |-> stores]
    /\ accounts = <<>>
    /\ request_cache = <<>>
    /\ call = [op |-> "new"]
    /\ result = Ok
    /\ sent = <<>>
    /\ puts = 0
    /\ status = [id \in MessageIds |-> "never"]
    /\ ledger = <<>>

\* node runs its churn pass; it is still close to every account it holds
GroupChurn(node, order) ==
    /\ node \notin group.churned
    /\ LET held == DOMAIN group.stores[node]
           outcome == handle_churn(NodeManager(node),
                                   [n \in held |-> "Some"], order)
       IN /\ group' = [group EXCEPT
                 !.stores[node] = outcome.accounts,
                 !.churned = @ \cup {node},
                 !.network = @ \cup
                     {[from |-> node, to |-> peer, message |-> outcome.sent[i]] :
                         peer \in Nodes \ {node}, i \in 1..Len(outcome.sent)}]
          /\ sent' = outcome.sent
          /\ result' = outcome.result
    /\ call' = [op |-> "handle_churn", node |-> node]
    /\ UNCHANGED <<accounts, request_cache, puts, status, ledger>>

\* a refresh reaches the node it was sent to
GroupDeliver(refresh) ==
    /\ refresh \in group.network
    /\ LET content == refresh.message.content
           outcome == handle_refresh(NodeManager(refresh.to),
                                     content.name, content.value)
       IN /\ group' = [group EXCEPT
                 !.stores[refresh.to] = outcome.accounts,
                 !.network = @ \ {refresh}]
          /\ sent' = outcome.sent
          /\ result' = outcome.result
    /\ call' = [op |-> "handle_refresh", node |-> refresh.to,
                from |-> refresh.from]
    /\ UNCHANGED <<accounts, request_cache, puts, status, ledger>>

GroupNext ==
    \/ \E node \in Nodes :
           \E order \in Orders(DOMAIN group.stores[node]) :
               GroupChurn(node, order)
    \/ \E refresh \in group.network : GroupDeliver(refresh)

GroupSpec == GroupInit /\ [][GroupNext]_vars

(***************************************************************************)
(* Claims about the close group (checked under GroupSpec)                  *)
(***************************************************************************)
\* every node has run its churn pass and every refresh has been delivered
Settled == group.churned = Nodes /\ group.network = {}

\* the accounts that were held for the client at the start
HeldAtStart ==
    {group.initial[node][GroupClient] :
        node \in {n \in Nodes : GroupClient \in DOMAIN group.initial[n]}}

AllHold(account) ==
    \A node \in Nodes :
        /\ GroupClient \in DOMAIN group.stores[node]
        /\ group.stores[node][GroupClient] = account

\* C13 as stated: once every node has run its churn pass and every refresh
\* has been delivered, all nodes hold the same account for the client.
C13_Original ==
    Settled => \E account \in GroupAccounts : AllHold(account)

\* C13 (amended): if the nodes that held an account for the client before
\* the churn passes held the same account, then once every node has run its
\* churn pass and every refresh has been delivered, every node of the group
\* holds that account, the nodes that held none before included.
C13_AgreedGroupConverges ==
    (Settled /\ Cardinality(HeldAtStart) = 1) =>
        \A account \in HeldAtStart : AllHold(account)

\* a node that held no account has received the debited account that the
\* other nodes held
C13_Witness ==
    /\ Settled
    /\ HeldAtStart = {Debited(AccountDefault)}
    /\ \E node \in Nodes : group.initial[node] = <<>>
    /\ AllHold(Debited(AccountDefault))
    /\ call.op = "handle_refresh"

(***************************************************************************)
(* AccountSpec: Account::put_data and Account::delete_data applied with    *)
(* sizes of every magnitude to an account created with Account::default(). *)
(* The account under test is accounts[1].  `ledger` lists the sizes of the *)
(* successful debits that no refund has been matched with yet; a refund    *)
(* that matches none of them (it is larger than every outstanding debit,   *)
(* or there is none) puts -1 at the head of the ledger for good.           *)
(***************************************************************************)
Sizes ==
    {0, 1, DEFAULT_PAYMENT, DEFAULT_ACCOUNT_SIZE - DEFAULT_PAYMENT,
     DEFAULT_ACCOUNT_SIZE, DEFAULT_ACCOUNT_SIZE + 1}

RemoveAt(seq, i) == SubSeq(seq, 1, i - 1) \o SubSeq(seq, i + 1, Len(seq))

Unmatched == ledger # <<>> /\ ledger[1] = -1

AccountInit ==
    /\ accounts = [n \in {1} |-> AccountDefault]
    /\ request_cache = <<>>
    /\ call = [op |-> "default"]
    /\ result = Ok
    /\ sent = <<>>
    /\ puts = 0
    /\ status = [id \in MessageIds |-> "never"]
    /\ ledger = <<>>
    /\ group = NoGroup

AccountPutData(size) ==
    /\ puts < MaxAccountOps
    /\ LET r == put_data(accounts[1], size)
       IN /\ accounts' = [accounts EXCEPT ![1] = r.account]
          /\ result' = r.result
          /\ ledger' = IF r.result = Ok /\ ~Unmatched
                       THEN Append(ledger, size) ELSE ledger
    /\ call' = [op |-> "put_data", size |-> size, before |-> accounts[1]]
    /\ puts' = puts + 1
    /\ UNCHANGED <<request_cache, sent, status, group>>

\* a refund matched with the outstanding debit at position i of the ledger
AccountDeleteMatched(size, i) ==
    /\ puts < MaxAccountOps
    /\ ~Unmatched
    /\ i \in 1..Len(ledger)
    /\ size <= ledger[i]
    /\ accounts' = [accounts EXCEPT ![1] = delete_data(accounts[1], size)]
    /\ result' = Ok
    /\ ledger' = RemoveAt(ledger, i)
    /\ call' = [op |-> "delete_data", size |-> size, before |-> accounts[1],
                matched |-> ledger[i]]
    /\ puts' = puts + 1
    /\ UNCHANGED <<request_cache, sent, status, group>>

\* a refund that no outstanding debit accounts for
AccountDeleteUnmatched(size) ==
    /\ puts < MaxAccountOps
    /\ Unmatched \/ \A i \in 1..Len(ledger) : size > ledger[i]
    /\ accounts' = [accounts EXCEPT ![1] = delete_data(accounts[1], size)]
    /\ result' = Ok
    /\ ledger' = IF Unmatched THEN ledger ELSE <<-1>> \o ledger
    /\ call' = [op |-> "delete_data", size |-> size, before |-> accounts[1],
                matched |-> -1]
    /\ puts' = puts + 1
    /\ UNCHANGED <<request_cache, sent, status, group>>

AccountNext ==
    \/ \E size \in Sizes : AccountPutData(size)
    \/ \E size \in Sizes, i \in 1..MaxAccountOps : AccountDeleteMatched(size, i)
    \/ \E size \in Sizes : AccountDeleteUnmatched(size)

AccountSpec == AccountInit /\ [][AccountNext]_vars

(***************************************************************************)
(* Claims about Account (checked under AccountSpec)                        *)
(***************************************************************************)
\* C1: put_data(size) returns Err(LowBalance) exactly when size exceeds
\* space_available at the time of the call; on the error the account is
\* unchanged, otherwise data_stored has grown by size and space_available
\* has shrunk by size.
C1_PutDataContract ==
    call.op = "put_data" =>
        LET before == call.before
            after == accounts[1]
        IN /\ result \in {Ok, ErrClient("LowBalance")}
           /\ (result = ErrClient("LowBalance"))
                  <=> (call.size > before.space_available)
           /\ result # Ok => after = before
           /\ result = Ok =>
                  /\ after.data_stored = before.data_stored + call.size
                  /\ after.space_available = before.space_available - call.size

\* a debit is refused after an earlier debit of the same account succeeded
C1_Witness ==
    /\ call.op = "put_data"
    /\ result = ErrClient("LowBalance")
    /\ call.before.data_stored > 0
    /\ call.size <= DEFAULT_ACCOUNT_SIZE

\* C2: for an account created with the default values, once every
\* successful debit has been matched by exactly one refund of its size or
\* less (and there was no other refund), data_stored + space_available is
\* DEFAULT_ACCOUNT_SIZE.
C2_SumConserved ==
    ledger = <<>> =>
        accounts[1].data_stored + accounts[1].space_available
            = DEFAULT_ACCOUNT_SIZE

\* every debit is matched, the last one by a refund smaller than the debit
C2_Witness ==
    /\ ledger = <<>>
    /\ call.op = "delete_data"
    /\ call.matched > call.size
    /\ call.size > 0
    /\ accounts[1].data_stored > 0

\* C19: delete_data(size) never fails.  If size exceeds data_stored it adds
\* data_stored to space_available and sets data_stored to 0, otherwise it
\* moves size from data_stored to space_available.  Either way the sum of
\* the two fields is what it was, space_available grows by no more than
\* what was stored, and no field goes below 0.
C19_DeleteDataClamps ==
    call.op = "delete_data" =>
        LET before == call.before
            after == accounts[1]
        IN /\ result = Ok
           /\ IF call.size > before.data_stored
              THEN /\ after.data_stored = 0
                   /\ after.space_available =
                          before.space_available + before.data_stored
              ELSE /\ after.data_stored = before.data_stored - call.size
                   /\ after.space_available =
                          before.space_available + call.size
           /\ after.data_stored + after.space_available
                  = before.data_stored + before.space_available
           /\ after.space_available - before.space_available
                  <= before.data_stored
           /\ after.data_stored >= 0
           /\ after.space_available >= 0

\* a refund of DEFAULT_PAYMENT of an account that stores less than that,
\* but something
C19_Witness ==
    /\ call.op = "delete_data"
    /\ call.size = DEFAULT_PAYMENT
    /\ call.before.data_stored > 0
    /\ call.before.data_stored < call.size
    /\ accounts[1] = AccountDefault

====
